---- MODULE Spec2Model ----
(***************************************************************************)
(* Model of BulkOperationsManager                                          *)
(* (inventory/static/inventory/js/bulk-operations.js).                     *)
(*                                                                         *)
(* The browser runs every handler to completion; the only suspension       *)
(* points are the awaits.  One action of the model is therefore one        *)
(* event-loop task: a DOM event handler up to its first pending await, or  *)
(* the continuation of an await up to the next pending one (continuations  *)
(* of already settled promises are micro-tasks of the same task).          *)
(***************************************************************************)
EXTENDS Integers, Sequences, FiniteSets, TLC

\* ------------------------------------------------------------------ bounds
NumRows == 21        \* rows (item checkboxes) on the page
MaxToggle == 2       \* rows 1..MaxToggle are the ones the user toggles one by one
MaxStockItems == 2   \* largest selection the user submits the stock form for
MaxJobs == 2         \* executeOperation calls in one run
MaxFailures == 2     \* failing chunk requests in one run
MaxEvents == 4       \* user input events (clicks, key presses, submits) in one run

\* ------------------------------------------------------- program constants
UpdateBatchSize == 10
ActivateBatchSize == 20

Rows == 1 .. NumRows

Actions == {"update", "adjust-stock", "activate", "deactivate", "export", "unknown"}

Kinds == {"update", "adjust-stock", "activate", "deactivate"}

\* BatchSize with the activate loop using the batch size of the update loop
BatchSize_SharedSize(kind) ==
  CASE kind = "adjust-stock" -> 1
    [] OTHER -> UpdateBatchSize

\* batch size of the loop of each kind (the stock loop steps by one item)
BatchSize(kind) ==
  CASE kind = "update" -> UpdateBatchSize
    [] kind = "adjust-stock" -> 1
    [] OTHER -> ActivateBatchSize

Title(kind) ==
  CASE kind = "update" -> "Bulk Update Products"
    [] kind = "adjust-stock" -> "Bulk Stock Adjustment"
    [] kind = "activate" -> "Bulk Activate Products"
    [] OTHER -> "Bulk Deactivate Products"

\* ----------------------------------------------------------------- helpers
Min(a, b) == IF a < b THEN a ELSE b

Range(s) == {s[k] : k \in 1 .. Len(s)}

\* Array.prototype.slice(from, to) with 0-based, end-exclusive indices
Slice(s, from, to) == SubSeq(s, from + 1, Min(to, Len(s)))

\* Set.prototype.add on an insertion-ordered set
SetAdd(s, x) == IF x \in Range(s) THEN s ELSE Append(s, x)

\* Set.prototype.delete on an insertion-ordered set
SetDelete(s, x) == SelectSeq(s, LAMBDA y : y # x)

\* Math.round(completed / total * 100), total > 0
Percentage(completed, total) == (200 * completed + total) \div (2 * total)

RECURSIVE SumSeq(_)
SumSeq(s) == IF s = <<>> THEN 0 ELSE Head(s) + SumSeq(Tail(s))

\* error-list entries
BatchError == [msg |-> "Batch error", id |-> 0]
UnknownError == [msg |-> "Unknown error in batch", id |-> 0]
ServerError == [msg |-> "server error", id |-> 0]
ProductError(pid) == [msg |-> "Product", id |-> pid]

\* bodies a chunk response can parse to: success, success:false with or
\* without an errors list, or a body whose fields cannot be read
ServerErrorLists == {<<>>, <<ServerError>>, <<ServerError, ServerError>>}

Results ==
  {[shape |-> "ok", hasErrors |-> FALSE, errors |-> <<>>],
   [shape |-> "malformed", hasErrors |-> FALSE, errors |-> <<>>],
   [shape |-> "fail", hasErrors |-> FALSE, errors |-> <<>>]}
  \cup {[shape |-> "fail", hasErrors |-> TRUE, errors |-> e] : e \in ServerErrorLists}

\* ------------------------------------------------------------------- state
VARIABLES
  selectedItems,        \* this.selectedItems, in insertion order
  operationInProgress,  \* this.operationInProgress
  currentOperation,     \* this.currentOperation ("null" or a title)
  jobs,                 \* the operationFunc closures started so far
  dom,                  \* elements of #bulkProgressModal
  checked,              \* ids of the checked .item-checkbox elements
  visibleRows,          \* number of .item-checkbox elements on the page
  toolbar,              \* .bulk-actions-toolbar and #selectedCount
  selectAllBox,         \* #selectAll
  buttons,              \* the [data-bulk-action] buttons
  modals,               \* #bulkUpdateModal and #bulkStockModal
  lastAlert,            \* message of the latest showAlert
  refreshRequested,     \* refreshProductList asked for a reload
  exported,             \* ids posted by the latest export form
  events                \* number of user input events dispatched so far

progVars == <<selectedItems, operationInProgress, currentOperation, jobs, dom,
              checked, visibleRows, toolbar, selectAllBox, buttons, modals, lastAlert,
              refreshRequested, exported>>

vars == <<progVars, events>>

selVars == <<selectedItems, checked, visibleRows, toolbar, selectAllBox>>

PlainText(m) == [msg |-> m, n |-> 0, of |-> 0]

ButtonIdle == [disabled |-> FALSE, label |-> "original"]
ButtonBusy == [disabled |-> TRUE, label |-> "processing"]

\* createProgressModal: the markup of the progress dialog
InitDom ==
  [title |-> "Processing Bulk Operation",
   itemsCount |-> 0,
   successCount |-> 0,
   errorCount |-> 0,
   progressCount |-> <<0, 0>>,
   overallProgress |-> 0,
   progressText |-> PlainText("Preparing operation..."),
   currentItem |-> 0,
   errorLogShown |-> FALSE,
   errorLog |-> <<>>,
   cancelShown |-> TRUE,
   closeShown |-> FALSE,
   shown |-> FALSE]

Init ==
  /\ selectedItems = <<>>
  /\ operationInProgress = FALSE
  /\ currentOperation = "null"
  /\ jobs = <<>>
  /\ dom = InitDom
  /\ checked = {}
  /\ visibleRows \in {0, NumRows}
  /\ toolbar = [display |-> "none", selectedCount |-> 0]
  /\ selectAllBox = [checked |-> FALSE, indeterminate |-> FALSE]
  /\ buttons = [a \in Actions |-> ButtonIdle]
  /\ modals = [update |-> "none", stock |-> "none"]
  /\ lastAlert = "none"
  /\ refreshRequested = FALSE
  /\ exported = [started |-> FALSE, ids |-> <<>>]
  /\ events = 0

\* --------------------------------------------------------------- selection
\* updateSelectionToolbar without its else branch
UpdateSelectionToolbar_NeverHides(sel, tb) ==
  IF Len(sel) > 0
    THEN [display |-> "block", selectedCount |-> Len(sel)]
    ELSE tb

\* updateSelectionToolbar
UpdateSelectionToolbar(sel, tb) ==
  IF Len(sel) > 0
    THEN [display |-> "block", selectedCount |-> Len(sel)]
    ELSE [tb EXCEPT !.display = "none"]

\* updateSelectAllState treating a partial selection like an empty one
UpdateSelectAllState_NoIndeterminate(chk, box) ==
  IF visibleRows > 0
    THEN IF Cardinality(chk) = visibleRows
           THEN [checked |-> TRUE, indeterminate |-> FALSE]
           ELSE [checked |-> FALSE, indeterminate |-> FALSE]
    ELSE box

\* updateSelectAllState
UpdateSelectAllState(chk, box) ==
  IF visibleRows > 0
    THEN IF Cardinality(chk) = 0
           THEN [checked |-> FALSE, indeterminate |-> FALSE]
           ELSE IF Cardinality(chk) = visibleRows
                  THEN [checked |-> TRUE, indeterminate |-> FALSE]
                  ELSE [checked |-> FALSE, indeterminate |-> TRUE]
    ELSE box

\* handleItemSelection on the selection state st, for the checkbox of row r
\* whose checked property is already on
ItemSelection(st, r) ==
  LET sel == IF r \in st.checked THEN SetAdd(st.sel, r) ELSE SetDelete(st.sel, r)
  IN [sel |-> sel,
      checked |-> st.checked,
      toolbar |-> UpdateSelectionToolbar(sel, st.toolbar),
      box |-> UpdateSelectAllState(st.checked, st.box)]

\* toggleSelectAll: the forEach over the checkboxes r..visibleRows in DOM order
RECURSIVE SelectAllFrom(_, _, _)
SelectAllFrom(st, r, on) ==
  IF r > visibleRows THEN st
  ELSE SelectAllFrom(
         ItemSelection([st EXCEPT !.checked = IF on THEN @ \cup {r} ELSE @ \ {r}], r),
         r + 1, on)

SelState == [sel |-> selectedItems, checked |-> checked, toolbar |-> toolbar, box |-> selectAllBox]

SetSelState(st) ==
  /\ selectedItems' = st.sel
  /\ checked' = st.checked
  /\ visibleRows' = visibleRows
  /\ toolbar' = st.toolbar
  /\ selectAllBox' = st.box

\* clearSelection without the loop that unticks the checkboxes
ClearedSelection_LeavesBoxes(st) ==
  [sel |-> <<>>,
   checked |-> st.checked,
   toolbar |-> UpdateSelectionToolbar(<<>>, st.toolbar),
   box |-> UpdateSelectAllState(st.checked, st.box)]

\* clearSelection
ClearedSelection(st) ==
  [sel |-> <<>>,
   checked |-> {},
   toolbar |-> UpdateSelectionToolbar(<<>>, st.toolbar),
   box |-> UpdateSelectAllState({}, st.box)]

nonSelVars == <<operationInProgress, currentOperation, jobs, dom, buttons, modals,
                lastAlert, refreshRequested, exported>>

\* every user input event (click, key press, submit) counts against MaxEvents
Input == events < MaxEvents /\ events' = events + 1

\* change event of one item checkbox
ToggleItem(r) ==
  /\ Input
  /\ r \in 1 .. Min(MaxToggle, visibleRows)
  /\ SetSelState(ItemSelection(
       [SelState EXCEPT !.checked = IF r \in checked THEN @ \ {r} ELSE @ \cup {r}], r))
  /\ UNCHANGED nonSelVars

\* change event of #selectAll (the click flips the box first)
ToggleSelectAllClick ==
  /\ Input
  /\ LET on == ~selectAllBox.checked
     IN SetSelState(SelectAllFrom(
          [SelState EXCEPT !.box = [checked |-> on, indeterminate |-> FALSE]], 1, on))
  /\ UNCHANGED nonSelVars

\* the "Clear selection" link of the toolbar
ClearSelectionClick ==
  /\ Input
  /\ toolbar.display = "block"
  /\ SetSelState(ClearedSelection(SelState))
  /\ UNCHANGED nonSelVars

\* the Ctrl+A shortcut inside the table container: selectAllVisible
SelectAllVisibleKey ==
  /\ Input
  /\ SetSelState(SelectAllFrom(
       [SelState EXCEPT !.box = [checked |-> TRUE, indeterminate |-> @.indeterminate]], 1, TRUE))
  /\ UNCHANGED nonSelVars

\* -------------------------------------------------------------------- jobs
NoResult == [returned |-> FALSE, success |-> FALSE, completed |-> 0, total |-> 0, errors |-> <<>>]

\* the closure passed to executeOperation, at its first statement; the fields
\* sent, outcomes, progressLog and cancelled record what the closure did
NewJob(kind, button) ==
  [kind |-> kind,
   button |-> button,
   ids |-> selectedItems,
   i |-> 0,
   completed |-> 0,
   errors |-> <<>>,
   pc |-> "start",
   result |-> NoResult,
   sent |-> <<>>,
   outcomes |-> <<>>,
   progressLog |-> <<>>,
   cancelled |-> FALSE]

\* executeOperation, up to the call of operationFunc: the dialog is reset
StartDom(kind) ==
  [title |-> Title(kind),
   itemsCount |-> Len(selectedItems),
   successCount |-> 0,
   errorCount |-> 0,
   progressCount |-> <<0, Len(selectedItems)>>,
   overallProgress |-> 0,
   progressText |-> PlainText("Starting operation..."),
   currentItem |-> 0,
   errorLogShown |-> FALSE,
   errorLog |-> <<>>,
   cancelShown |-> TRUE,
   closeShown |-> FALSE,
   shown |-> TRUE]

\* selectedIds.slice(i, i + batchSize), or the single selectedIds[i]
Chunk(job) == Slice(job.ids, job.i, job.i + BatchSize(job.kind))

\* progress.update
ProgressUpdate(d, completed, total) ==
  [d EXCEPT !.overallProgress = Percentage(completed, total),
            !.progressText = [msg |-> "progress", n |-> completed, of |-> total],
            !.progressCount = <<completed, total>>,
            !.successCount = completed]

\* AddErrors raising the counter once per call instead of once per entry
AddErrors_CountsOnce(d, errs) ==
  IF errs = <<>> THEN d
  ELSE [d EXCEPT !.errorLog = @ \o errs,
                 !.errorLogShown = TRUE,
                 !.errorCount = @ + 1]

\* progress.addError, once per entry of errs
AddErrors(d, errs) ==
  IF errs = <<>> THEN d
  ELSE [d EXCEPT !.errorLog = @ \o errs,
                 !.errorLogShown = TRUE,
                 !.errorCount = @ + Len(errs)]

\* Issue for a loop that does not await the response before the next fetch
Issue_TwoInFlight(st) ==
  LET job == st.job
      next == Slice(job.ids, job.i + BatchSize(job.kind), job.i + 2 * BatchSize(job.kind))
  IN [job |-> [job EXCEPT !.pc = "fetch",
                          !.sent = IF next = <<>> THEN Append(@, Chunk(job))
                                                  ELSE @ \o <<Chunk(job), next>>],
      dom |-> IF job.kind = "adjust-stock"
                THEN [st.dom EXCEPT !.currentItem = job.ids[job.i + 1]]
                ELSE st.dom]

\* Issue for a loop that slices the live selection instead of its snapshot
Issue_ReadsLiveSelection(st) ==
  [job |-> [st.job EXCEPT !.pc = "fetch",
                          !.sent = Append(@, Slice(selectedItems, st.job.i,
                                                   st.job.i + BatchSize(st.job.kind)))],
   dom |-> IF st.job.kind = "adjust-stock"
             THEN [st.dom EXCEPT !.currentItem = st.job.ids[st.job.i + 1]]
             ELSE st.dom]

\* the loop body up to the fetch call: the request for the chunk at job.i
Issue(st) ==
  [job |-> [st.job EXCEPT !.pc = "fetch", !.sent = Append(@, Chunk(st.job))],
   dom |-> IF st.job.kind = "adjust-stock"
             THEN [st.dom EXCEPT !.currentItem = st.job.ids[st.job.i + 1]]
             ELSE st.dom]

\* Finished for an executeOperation without its finally clause
Finished_NoFinally(st) ==
  LET job == st.job
      ok == job.errors = <<>>
      d1 == AddErrors(st.dom, job.errors)
      text == IF ok
                THEN [msg |-> "Operation completed successfully", n |-> job.completed, of |-> 0]
                ELSE [msg |-> "Operation completed with errors", n |-> Len(job.errors), of |-> job.completed]
  IN [job |-> [job EXCEPT !.pc = "done",
                          !.result = [returned |-> TRUE, success |-> ok,
                                      completed |-> job.completed,
                                      total |-> Len(job.ids), errors |-> job.errors]],
      dom |-> [d1 EXCEPT !.progressText = text]]

\* the return of operationFunc and the rest of executeOperation
Finished(st) ==
  LET job == st.job
      ok == job.errors = <<>>
      d1 == AddErrors(st.dom, job.errors)
      text == IF ok
                THEN [msg |-> "Operation completed successfully", n |-> job.completed, of |-> 0]
                ELSE [msg |-> "Operation completed with errors", n |-> Len(job.errors), of |-> job.completed]
  IN [job |-> [job EXCEPT !.pc = "done",
                          !.result = [returned |-> TRUE, success |-> ok,
                                      completed |-> job.completed,
                                      total |-> Len(job.ids), errors |-> job.errors]],
      dom |-> [d1 EXCEPT !.progressText = text, !.cancelShown = FALSE, !.closeShown = TRUE]]

\* Advance for a loop that submits a failed chunk once more
Advance_RetryFailed(st) ==
  LET job == [st.job EXCEPT !.i = @ + BatchSize(st.job.kind)]
      n == Len(st.job.outcomes)
  IN IF st.job.outcomes[n] # "ok" /\ (n = 1 \/ st.job.outcomes[n - 1] = "ok")
            /\ Len(st.job.sent) = n
       THEN Issue(st)
       ELSE IF job.i < Len(job.ids) THEN Issue([st EXCEPT !.job = job])
                                    ELSE Finished([st EXCEPT !.job = job])

\* the loop increment and the loop test
Advance(st) ==
  LET job == [st.job EXCEPT !.i = @ + BatchSize(st.job.kind)]
  IN IF job.i < Len(job.ids) THEN Issue([st EXCEPT !.job = job])
                             ELSE Finished([st EXCEPT !.job = job])

\* AfterChunk for a loop that returns at the first failed chunk
AfterChunk_AbortOnFailure(st) ==
  IF st.job.outcomes[Len(st.job.outcomes)] # "ok" THEN Finished(st)
  ELSE IF st.job.kind = "adjust-stock" THEN [st EXCEPT !.job.pc = "sleep"] ELSE Advance(st)

\* AfterChunk for a stock loop whose pause sits in the success branch
AfterChunk_PauseOnSuccessOnly(st) ==
  IF st.job.kind = "adjust-stock" /\ st.job.outcomes[Len(st.job.outcomes)] = "ok"
    THEN [st EXCEPT !.job.pc = "sleep"]
    ELSE Advance(st)

\* after the try/catch of the loop body: the stock loop pauses first
AfterChunk(st) ==
  IF st.job.kind = "adjust-stock" THEN [st EXCEPT !.job.pc = "sleep"] ELSE Advance(st)

\* OnSuccess counting one item per chunk
OnSuccess_CountsOne(st) ==
  LET c == st.job.completed + 1
  IN [job |-> [st.job EXCEPT !.completed = c,
                             !.outcomes = Append(@, "ok"),
                             !.progressLog = Append(@, c)],
      dom |-> ProgressUpdate(st.dom, c, Len(st.job.ids))]

\* OnSuccess adding batchSize instead of batch.length
OnSuccess_AddsBatchSize(st) ==
  LET c == st.job.completed + BatchSize(st.job.kind)
  IN [job |-> [st.job EXCEPT !.completed = c,
                             !.outcomes = Append(@, "ok"),
                             !.progressLog = Append(@, c)],
      dom |-> ProgressUpdate(st.dom, c, Len(st.job.ids))]

\* the branch result.success
OnSuccess(st) ==
  LET c == st.job.completed + Len(Chunk(st.job))
  IN [job |-> [st.job EXCEPT !.completed = c,
                             !.outcomes = Append(@, "ok"),
                             !.progressLog = Append(@, c)],
      dom |-> ProgressUpdate(st.dom, c, Len(st.job.ids))]

\* OnFailure counting the items of the failed chunk as completed
OnFailure_CountsCompleted(st, res) ==
  LET entries == IF st.job.kind = "adjust-stock" THEN <<ProductError(st.job.ids[st.job.i + 1])>>
                 ELSE IF res.hasErrors THEN res.errors ELSE <<UnknownError>>
  IN [st EXCEPT !.job.errors = @ \o entries, !.job.outcomes = Append(@, "fail"),
                !.job.completed = @ + Len(Chunk(st.job))]

\* OnFailure pushing a single entry whatever the response lists
OnFailure_SingleEntry(st, res) ==
  LET entry == IF st.job.kind = "adjust-stock" THEN ProductError(st.job.ids[st.job.i + 1])
               ELSE UnknownError
  IN [st EXCEPT !.job.errors = Append(@, entry), !.job.outcomes = Append(@, "fail")]

\* the else branch of result.success
OnFailure(st, res) ==
  LET entries == IF st.job.kind = "adjust-stock" THEN <<ProductError(st.job.ids[st.job.i + 1])>>
                 ELSE IF res.hasErrors THEN res.errors ELSE <<UnknownError>>
  IN [st EXCEPT !.job.errors = @ \o entries, !.job.outcomes = Append(@, "fail")]

\* OnThrow reporting progress for the failed chunk as well
OnThrow_ReportsProgress(st) ==
  LET entry == IF st.job.kind = "adjust-stock" THEN ProductError(st.job.ids[st.job.i + 1])
               ELSE BatchError
  IN [job |-> [st.job EXCEPT !.errors = Append(@, entry),
                             !.outcomes = Append(@, "throw"),
                             !.progressLog = Append(@, st.job.completed)],
      dom |-> ProgressUpdate(st.dom, st.job.completed, Len(st.job.ids))]

\* the catch clause of the loop body
OnThrow(st) ==
  LET entry == IF st.job.kind = "adjust-stock" THEN ProductError(st.job.ids[st.job.i + 1])
               ELSE BatchError
  IN [st EXCEPT !.job.errors = Append(@, entry), !.job.outcomes = Append(@, "throw")]

CountFailed(outcomes) == Len(SelectSeq(outcomes, LAMBDA o : o # "ok"))

FailedChunks == SumSeq([j \in 1 .. Len(jobs) |-> CountFailed(jobs[j].outcomes)])

MayFail == FailedChunks < MaxFailures

\* AfterOperation for a caller that does not call refreshProductList
AfterOperation_NoRefresh(job, btns) ==
  /\ operationInProgress' = FALSE
  /\ lastAlert' = IF job.result.success THEN "Operation completed successfully"
                                        ELSE "Operation completed with errors"
  /\ UNCHANGED <<selVars, refreshRequested>>
  /\ buttons' = IF job.button = "none" THEN btns ELSE [btns EXCEPT ![job.button] = ButtonIdle]

\* AfterOperation for an executeOperation that does not clear its flag
AfterOperation_FlagStaysSet(job, btns) ==
  /\ operationInProgress' = operationInProgress
  /\ lastAlert' = IF job.result.success THEN "Operation completed successfully"
                                        ELSE "Operation completed with errors"
  /\ SetSelState(ClearedSelection(SelState))
  /\ refreshRequested' = TRUE
  /\ buttons' = IF job.button = "none" THEN btns ELSE [btns EXCEPT ![job.button] = ButtonIdle]

\* what follows executeOperation in its callers once it has returned:
\* refreshProductList, and the finally clause of handleBulkAction
AfterOperation(job, btns) ==
  /\ operationInProgress' = FALSE
  /\ lastAlert' = IF job.result.success THEN "Operation completed successfully"
                                        ELSE "Operation completed with errors"
  /\ SetSelState(ClearedSelection(SelState))
  /\ refreshRequested' = TRUE
  /\ buttons' = IF job.button = "none" THEN btns ELSE [btns EXCEPT ![job.button] = ButtonIdle]

\* one task of job j ends in st
Commit(j, st, inProgress, btns) ==
  /\ jobs' = IF j > Len(jobs) THEN Append(jobs, st.job) ELSE [jobs EXCEPT ![j] = st.job]
  /\ dom' = st.dom
  /\ IF st.job.pc = "done"
       THEN AfterOperation(st.job, btns)
       ELSE /\ operationInProgress' = inProgress
            /\ buttons' = btns
            /\ UNCHANGED <<selVars, lastAlert, refreshRequested>>

\* executeOperation called with the loop of the given kind
StartOperation(kind, button, btns) ==
  /\ Len(jobs) < MaxJobs
  /\ currentOperation' = Title(kind)
  /\ LET st0 == [job |-> NewJob(kind, button), dom |-> StartDom(kind)]
     IN Commit(Len(jobs) + 1,
               IF Len(selectedItems) > 0 THEN Issue(st0) ELSE Finished(st0),
               TRUE, btns)

Running(j) == jobs[j].pc # "done"

JobState(j) == [job |-> jobs[j], dom |-> dom]

stepFrame == <<currentOperation, modals, exported>>

\* the fetch promise of job j's pending request resolves
FetchResolves(j) ==
  /\ UNCHANGED events
  /\ jobs[j].pc = "fetch"
  /\ jobs' = [jobs EXCEPT ![j].pc = "json"]
  /\ UNCHANGED <<selVars, operationInProgress, currentOperation, dom, buttons, modals,
                 lastAlert, refreshRequested, exported>>

\* the fetch promise rejects (transport error)
FetchRejects(j) ==
  /\ UNCHANGED events
  /\ jobs[j].pc = "fetch"
  /\ MayFail
  /\ Commit(j, AfterChunk(OnThrow(JobState(j))), operationInProgress, buttons)
  /\ UNCHANGED stepFrame

\* response.json() resolves to res
JsonResolves(j, res) ==
  /\ UNCHANGED events
  /\ jobs[j].pc = "json"
  /\ res.shape # "ok" => MayFail
  /\ LET st == CASE res.shape = "ok" -> OnSuccess(JobState(j))
                 [] res.shape = "fail" -> OnFailure(JobState(j), res)
                 [] OTHER -> OnThrow(JobState(j))
     IN Commit(j, AfterChunk(st), operationInProgress, buttons)
  /\ UNCHANGED stepFrame

\* response.json() rejects (unparsable body)
JsonRejects(j) ==
  /\ UNCHANGED events
  /\ jobs[j].pc = "json"
  /\ MayFail
  /\ Commit(j, AfterChunk(OnThrow(JobState(j))), operationInProgress, buttons)
  /\ UNCHANGED stepFrame

\* the 100 ms timer of the stock loop fires
PauseElapses(j) ==
  /\ UNCHANGED events
  /\ jobs[j].pc = "sleep"
  /\ Commit(j, Advance(JobState(j)), operationInProgress, buttons)
  /\ UNCHANGED stepFrame

\* ---------------------------------------------------------------- handlers
\* handleBulkAction returns after showAlert(msg, 'warning')
Rejected(msg) ==
  /\ lastAlert' = msg
  /\ UNCHANGED <<selVars, operationInProgress, currentOperation, jobs, dom,
                 buttons, modals, refreshRequested, exported>>

\* DeclineConfirm for a bulkActivateDeactivate that refreshes the list in a
\* finally clause
DeclineConfirm_Refreshes ==
  /\ SetSelState(ClearedSelection(SelState))
  /\ refreshRequested' = TRUE
  /\ UNCHANGED <<operationInProgress, currentOperation, jobs, dom, buttons, modals,
                 lastAlert, exported>>

\* bulkActivateDeactivate returns because confirm() was declined
DeclineConfirm == UNCHANGED progVars

\* PerformAction for a switch whose default label sits on the export case
PerformAction_DefaultExports(action) ==
  CASE action = "update" ->
         /\ modals.update # "loading"
         /\ modals' = [modals EXCEPT !.update = "loading"]
         /\ buttons' = [buttons EXCEPT ![action] = ButtonBusy]
         /\ UNCHANGED <<selVars, operationInProgress, currentOperation, jobs, dom,
                        lastAlert, refreshRequested, exported>>
    [] action = "adjust-stock" ->
         /\ modals.stock # "loading"
         /\ modals' = [modals EXCEPT !.stock = "loading"]
         /\ buttons' = [buttons EXCEPT ![action] = ButtonBusy]
         /\ UNCHANGED <<selVars, operationInProgress, currentOperation, jobs, dom,
                        lastAlert, refreshRequested, exported>>
    [] action \in {"activate", "deactivate"} ->
         \E confirmed \in BOOLEAN :
           IF confirmed
             THEN /\ StartOperation(action, action, [buttons EXCEPT ![action] = ButtonBusy])
                  /\ UNCHANGED <<modals, exported>>
             ELSE UNCHANGED progVars
    [] OTHER ->
         /\ exported' = [started |-> TRUE, ids |-> selectedItems]
         /\ lastAlert' = "Export started"
         /\ UNCHANGED <<selVars, operationInProgress, currentOperation, jobs, dom,
                        buttons, modals, refreshRequested>>

\* the switch of handleBulkAction, the button already disabled.  A modal whose
\* options are still loading is not requested a second time.
PerformAction(action) ==
  CASE action = "update" ->
         /\ modals.update # "loading"
         /\ modals' = [modals EXCEPT !.update = "loading"]
         /\ buttons' = [buttons EXCEPT ![action] = ButtonBusy]
         /\ UNCHANGED <<selVars, operationInProgress, currentOperation, jobs, dom,
                        lastAlert, refreshRequested, exported>>
    [] action = "adjust-stock" ->
         /\ modals.stock # "loading"
         /\ modals' = [modals EXCEPT !.stock = "loading"]
         /\ buttons' = [buttons EXCEPT ![action] = ButtonBusy]
         /\ UNCHANGED <<selVars, operationInProgress, currentOperation, jobs, dom,
                        lastAlert, refreshRequested, exported>>
    [] action \in {"activate", "deactivate"} ->
         \E confirmed \in BOOLEAN :
           IF confirmed
             THEN /\ StartOperation(action, action, [buttons EXCEPT ![action] = ButtonBusy])
                  /\ UNCHANGED <<modals, exported>>
             ELSE DeclineConfirm
    [] action = "export" ->
         /\ exported' = [started |-> TRUE, ids |-> selectedItems]
         /\ lastAlert' = "Export started"
         /\ UNCHANGED <<selVars, operationInProgress, currentOperation, jobs, dom,
                        buttons, modals, refreshRequested>>
    [] OTHER ->
         /\ lastAlert' = "Unknown action"
         /\ UNCHANGED <<selVars, operationInProgress, currentOperation, jobs, dom,
                        buttons, modals, refreshRequested, exported>>

\* handleBulkAction without the operationInProgress check
HandleBulkAction_NoGuard(action) ==
  /\ Input
  /\ ~buttons[action].disabled
  /\ IF Len(selectedItems) = 0
       THEN Rejected("Please select items first")
       ELSE PerformAction(action)

\* click on an enabled [data-bulk-action] button: handleBulkAction up to its
\* first pending await
HandleBulkAction(action) ==
  /\ Input
  /\ ~buttons[action].disabled
  /\ IF operationInProgress
       THEN Rejected("Another operation is already in progress")
       ELSE IF Len(selectedItems) = 0
              THEN Rejected("Please select items first")
              ELSE PerformAction(action)

\* the Ctrl+U shortcut: showBulkUpdateModal up to its first pending await
\* (not pressed again while the options of the modal are still loading)
CtrlU ==
  /\ Input
  /\ Len(selectedItems) > 0
  /\ modals.update # "loading"
  /\ modals' = [modals EXCEPT !.update = "loading"]
  /\ UNCHANGED <<selVars, operationInProgress, currentOperation, jobs, dom, buttons,
                 lastAlert, refreshRequested, exported>>

\* loadSelectOptions has settled: the update modal is shown, and the finally
\* clause of a waiting handleBulkAction restores its button
UpdateModalLoaded ==
  /\ UNCHANGED events
  /\ modals.update = "loading"
  /\ modals' = [modals EXCEPT !.update = "open"]
  /\ buttons' = [buttons EXCEPT !["update"] = ButtonIdle]
  /\ UNCHANGED <<selVars, operationInProgress, currentOperation, jobs, dom,
                 lastAlert, refreshRequested, exported>>

\* loadLocations has settled: the stock modal is shown
StockModalLoaded ==
  /\ UNCHANGED events
  /\ modals.stock = "loading"
  /\ modals' = [modals EXCEPT !.stock = "open"]
  /\ buttons' = [buttons EXCEPT !["adjust-stock"] = ButtonIdle]
  /\ UNCHANGED <<selVars, operationInProgress, currentOperation, jobs, dom,
                 lastAlert, refreshRequested, exported>>

\* SubmitUpdateForm for an executeBulkUpdate without the check of the fields
SubmitUpdateForm_NoFieldCheck(anyField) ==
  /\ Input
  /\ modals.update = "open"
  /\ modals' = [modals EXCEPT !.update = "none"]
  /\ StartOperation("update", "none", buttons)
  /\ UNCHANGED exported

\* submit event of #bulkUpdateForm: executeBulkUpdate
SubmitUpdateForm(anyField) ==
  /\ Input
  /\ modals.update = "open"
  /\ IF anyField
       THEN /\ modals' = [modals EXCEPT !.update = "none"]
            /\ StartOperation("update", "none", buttons)
            /\ UNCHANGED exported
       ELSE /\ lastAlert' = "Please select at least one field to update"
            /\ UNCHANGED <<selVars, operationInProgress, currentOperation, jobs, dom,
                           buttons, modals, refreshRequested, exported>>

\* submit event of #bulkStockForm: executeBulkStockAdjustment
SubmitStockForm ==
  /\ Input
  /\ modals.stock = "open"
  /\ Len(selectedItems) <= MaxStockItems
  /\ modals' = [modals EXCEPT !.stock = "none"]
  /\ StartOperation("adjust-stock", "none", buttons)
  /\ UNCHANGED exported

\* data-bs-dismiss of an open form modal
DismissModal(m) ==
  /\ Input
  /\ modals[m] = "open"
  /\ modals' = [modals EXCEPT ![m] = "none"]
  /\ UNCHANGED <<selVars, operationInProgress, currentOperation, jobs, dom, buttons,
                 lastAlert, refreshRequested, exported>>

\* cancelCurrentOperation dropping the pending request of every running job
CancelClick_AbortsPending ==
  /\ Input
  /\ dom.shown /\ dom.cancelShown
  /\ IF operationInProgress
       THEN /\ operationInProgress' = FALSE
            /\ dom' = [dom EXCEPT !.progressText = PlainText("Operation cancelled by user"),
                                  !.cancelShown = FALSE,
                                  !.closeShown = TRUE]
            /\ lastAlert' = "Operation cancelled"
            /\ jobs' = [j \in 1 .. Len(jobs) |->
                          IF Running(j) THEN [jobs[j] EXCEPT !.cancelled = TRUE, !.pc = "done"]
                                        ELSE jobs[j]]
            /\ UNCHANGED <<selVars, currentOperation, buttons, modals, refreshRequested, exported>>
       ELSE UNCHANGED progVars

\* click on #cancelOperation: cancelCurrentOperation
CancelClick ==
  /\ Input
  /\ dom.shown /\ dom.cancelShown
  /\ IF operationInProgress
       THEN /\ operationInProgress' = FALSE
            /\ dom' = [dom EXCEPT !.progressText = PlainText("Operation cancelled by user"),
                                  !.cancelShown = FALSE,
                                  !.closeShown = TRUE]
            /\ lastAlert' = "Operation cancelled"
            /\ jobs' = [j \in 1 .. Len(jobs) |->
                          IF Running(j) THEN [jobs[j] EXCEPT !.cancelled = TRUE] ELSE jobs[j]]
            /\ UNCHANGED <<selVars, currentOperation, buttons, modals, refreshRequested, exported>>
       ELSE UNCHANGED progVars

\* click on #closeProgress: the dialog is hidden, then resetProgress
CloseClick ==
  /\ Input
  /\ dom.shown /\ dom.closeShown
  /\ dom' = [dom EXCEPT !.shown = FALSE]
  /\ operationInProgress' = FALSE
  /\ currentOperation' = "null"
  /\ UNCHANGED <<selVars, jobs, buttons, modals, lastAlert, refreshRequested, exported>>

\* ----------------------------------------------------------- specification
Next ==
  \/ \E r \in Rows : ToggleItem(r)
  \/ ToggleSelectAllClick
  \/ SelectAllVisibleKey
  \/ ClearSelectionClick
  \/ \E a \in Actions : HandleBulkAction(a)
  \/ CtrlU
  \/ UpdateModalLoaded
  \/ StockModalLoaded
  \/ \E f \in BOOLEAN : SubmitUpdateForm(f)
  \/ SubmitStockForm
  \/ \E m \in {"update", "stock"} : DismissModal(m)
  \/ CancelClick
  \/ CloseClick
  \/ \E j \in 1 .. Len(jobs) : FetchResolves(j)
  \/ \E j \in 1 .. Len(jobs) : FetchRejects(j)
  \/ \E j \in 1 .. Len(jobs) : \E res \in Results : JsonResolves(j, res)
  \/ \E j \in 1 .. Len(jobs) : JsonRejects(j)
  \/ \E j \in 1 .. Len(jobs) : PauseElapses(j)

Spec == Init /\ [][Next]_vars

\* ------------------------------------------------------------------ claims
JobIds == 1 .. Len(jobs)

\* ceil(n / b)
NumChunks(n, b) == (n + b - 1) \div b

Failed(job, k) == job.outcomes[k] # "ok"

AnyFailed(job) == \E k \in 1 .. Len(job.outcomes) : Failed(job, k)

\* items of the chunks of job whose request succeeded / did not succeed
SucceededItems(job) ==
  SumSeq([k \in 1 .. Len(job.outcomes) |-> IF Failed(job, k) THEN 0 ELSE Len(job.sent[k])])

FailedItems(job) ==
  SumSeq([k \in 1 .. Len(job.outcomes) |-> IF Failed(job, k) THEN Len(job.sent[k]) ELSE 0])

Done(job) == job.pc = "done"

\* C1: a job that was not cancelled and has returned issued one request per
\* chunk and recorded one outcome per chunk, whichever chunks failed; while it
\* runs, a failed chunk that is not the last one is followed by a request, a
\* pending pause or the return only after all chunks.
C1_FailureNeverStopsLoop ==
  \A j \in JobIds :
    LET job == jobs[j]
        n == NumChunks(Len(job.ids), BatchSize(job.kind))
    IN ~job.cancelled =>
         /\ Done(job) => Len(job.sent) = n /\ Len(job.outcomes) = n
         /\ Len(job.sent) <= n
         /\ \A k \in 1 .. Len(job.outcomes) :
              Failed(job, k) /\ k < n => ~Done(job) \/ Len(job.sent) > k

C1_Witness ==
  \E j \in JobIds :
    /\ Done(jobs[j]) /\ ~jobs[j].cancelled
    /\ Len(jobs[j].sent) >= 2
    /\ Failed(jobs[j], 1)
    /\ jobs[j].outcomes[2] = "ok"

\* C2: at most one job is running.
C2_AtMostOneJobRunning == Cardinality({j \in JobIds : Running(j)}) <= 1

\* C3: a handleBulkAction invoked while operationInProgress is true only shows
\* the warning; selection, buttons, modals, jobs and the dialog are unchanged.
C3_RejectedWhileInProgress ==
  [][(operationInProgress /\ \E a \in Actions : HandleBulkAction(a))
       => /\ lastAlert' = "Another operation is already in progress"
          /\ UNCHANGED <<selVars, operationInProgress, currentOperation, jobs, dom,
                         buttons, modals, refreshRequested, exported>>]_vars

C3_Witness ==
  /\ operationInProgress
  /\ lastAlert = "Another operation is already in progress"
  /\ \E j \in JobIds : Running(j) /\ Len(selectedItems) > 0

\* C4: once a job is cancelled no further request of it is issued.
C4_NoRequestAfterCancel ==
  [][\A j \in JobIds : jobs[j].cancelled => Len(jobs'[j].sent) = Len(jobs[j].sent)]_vars

\* C5: the requests of one job are the consecutive slices of its selection, in
\* order, and request N+1 is issued only when the outcome of request N has
\* been recorded: at most one request of the job is in flight.
C5_OneRequestInFlight ==
  \A j \in JobIds :
    LET job == jobs[j]
        b == BatchSize(job.kind)
        inFlight == Len(job.sent) - Len(job.outcomes)
    IN /\ inFlight \in {0, 1}
       /\ inFlight = 1 <=> job.pc \in {"fetch", "json"}
       /\ \A k \in 1 .. Len(job.sent) : job.sent[k] = Slice(job.ids, (k - 1) * b, k * b)

C5_Witness ==
  \E j \in JobIds :
    /\ jobs[j].pc \in {"fetch", "json"}
    /\ Len(jobs[j].sent) = 3
    /\ Failed(jobs[j], 2)

\* C6 as claimed: completed counts the items of failed chunks too.
C6_CompletedIncludesFailed ==
  \A j \in JobIds : jobs[j].completed = SucceededItems(jobs[j]) + FailedItems(jobs[j])

\* C6 as amended: completed counts the items of succeeded chunks only, so a
\* returned job has completed = total - items of failed chunks.
C6_CompletedCountsSucceeded ==
  \A j \in JobIds :
    /\ jobs[j].completed = SucceededItems(jobs[j])
    /\ Done(jobs[j]) => jobs[j].result.completed = Len(jobs[j].ids) - FailedItems(jobs[j])

\* three chunks of 10, 10 and at least one item; only the second one failed
C6_Witness ==
  \E j \in JobIds :
    /\ Done(jobs[j]) /\ jobs[j].kind = "update"
    /\ Len(jobs[j].outcomes) = 3
    /\ jobs[j].outcomes[1] = "ok" /\ jobs[j].outcomes[2] = "fail" /\ jobs[j].outcomes[3] = "ok"
    /\ jobs[j].result.completed = Len(jobs[j].ids) - UpdateBatchSize

\* C7 as claimed: a job that returns without having been cancelled has
\* completed = total and success + errors.length = completed.
C7_TerminalTotals ==
  \A j \in JobIds :
    Done(jobs[j]) /\ ~jobs[j].cancelled =>
      /\ jobs[j].result.completed = jobs[j].result.total
      /\ SucceededItems(jobs[j]) + Len(jobs[j].result.errors) = jobs[j].result.completed

\* the error entries of a stock job: one per failed item, in order
RECURSIVE StockErrors(_, _)
StockErrors(job, k) ==
  IF k = 0 THEN <<>>
  ELSE IF Failed(job, k) THEN Append(StockErrors(job, k - 1), ProductError(job.ids[k]))
       ELSE StockErrors(job, k - 1)

\* C7 as amended: a job that returns without having been cancelled has
\* total = number of selected items and completed = total - items of failed
\* chunks; in a stock adjustment the error list has exactly one entry per
\* failed item, so completed + errors.length = total.
C7_TerminalTotalsAmended ==
  \A j \in JobIds :
    LET job == jobs[j] IN
    Done(job) /\ ~job.cancelled =>
      /\ job.result.total = Len(job.ids)
      /\ job.result.completed = job.result.total - FailedItems(job)
      /\ job.result.completed = job.result.total <=> ~AnyFailed(job)
      /\ job.kind = "adjust-stock" =>
           /\ job.result.errors = StockErrors(job, Len(job.outcomes))
           /\ job.result.completed + Len(job.result.errors) = job.result.total

\* a stock adjustment over two items of which only the first failed
C7_Witness ==
  \E j \in JobIds :
    /\ Done(jobs[j]) /\ ~jobs[j].cancelled /\ jobs[j].kind = "adjust-stock"
    /\ Len(jobs[j].ids) = 2
    /\ jobs[j].outcomes = <<"fail", "ok">>
    /\ jobs[j].result.completed = 1
    /\ jobs[j].result.errors = <<ProductError(jobs[j].ids[1])>>

\* C8: the completed values passed to progress.update by one job never
\* decrease and never exceed the number of items selected at its start.
C8_ProgressMonotone ==
  \A j \in JobIds :
    \A k \in 1 .. Len(jobs[j].progressLog) :
      /\ jobs[j].progressLog[k] <= Len(jobs[j].ids)
      /\ k > 1 => jobs[j].progressLog[k - 1] <= jobs[j].progressLog[k]

\* two callbacks around a failed chunk, the last chunk shorter than a batch
C8_Witness ==
  \E j \in JobIds :
    /\ jobs[j].kind = "update" /\ Len(jobs[j].ids) % UpdateBatchSize # 0
    /\ Len(jobs[j].progressLog) = 2
    /\ jobs[j].outcomes = <<"ok", "fail", "ok">>

\* C9: a returned job of which a chunk failed reports success = false and a
\* summary "completed with N errors" with N >= 1.
C9_FailureIsReported ==
  \A j \in JobIds :
    Done(jobs[j]) /\ AnyFailed(jobs[j]) =>
      /\ ~jobs[j].result.success
      /\ Len(jobs[j].result.errors) >= 1

\* bar, status text and counters of the progress dialog
Display(d) == <<d.overallProgress, d.progressText, d.progressCount, d.successCount, d.errorCount>>

\* C10: a job that has returned or was cancelled keeps its counters and its
\* error list, and as long as no new job starts the display of the latest job
\* stays as it is.
C10_TerminalJobFrozen ==
  [][\A j \in JobIds :
       Done(jobs[j]) \/ jobs[j].cancelled =>
         /\ jobs'[j].completed = jobs[j].completed
         /\ jobs'[j].errors = jobs[j].errors
         /\ j = Len(jobs) /\ Len(jobs') = Len(jobs) => Display(dom') = Display(dom)]_vars

\* C11: cancelling aborts nothing: a cancelled job still has its dispatched
\* request pending or its outcome recorded, every request it issued has an
\* outcome once it has returned, and the items of its succeeded chunks are
\* counted as completed.
C11_DispatchedChunkCompletes ==
  \A j \in JobIds :
    LET job == jobs[j] IN
    job.cancelled =>
      /\ job.pc \in {"fetch", "json"} => Len(job.outcomes) = Len(job.sent) - 1
      /\ job.pc \in {"sleep", "done"} => Len(job.outcomes) = Len(job.sent)
      /\ job.completed = SucceededItems(job)
      /\ Len(job.errors) >= Len(SelectSeq(job.outcomes, LAMBDA o : o = "throw"))

\* a batched job (its request is pending whenever it is running) that was
\* cancelled and whose pending chunk was then counted
C11_Witness ==
  \E j \in JobIds :
    /\ jobs[j].cancelled /\ Done(jobs[j])
    /\ jobs[j].kind \in {"activate", "deactivate", "update"}
    /\ jobs[j].outcomes = <<"ok">>
    /\ jobs[j].completed = Len(jobs[j].ids)

\* C12 as claimed: a returned job has made one progress callback per chunk.
C12_ProgressAfterEveryChunk ==
  \A j \in JobIds :
    Done(jobs[j]) =>
      Len(jobs[j].progressLog) = NumChunks(Len(jobs[j].ids), BatchSize(jobs[j].kind))

\* C12 as amended: one progress callback per succeeded chunk and none for a
\* failed one.
C12_ProgressAfterSucceededChunks ==
  \A j \in JobIds :
    LET job == jobs[j] IN
    /\ Len(job.progressLog) = Len(job.outcomes) - CountFailed(job.outcomes)
    /\ Done(job) =>
         Len(job.progressLog) =
           NumChunks(Len(job.ids), BatchSize(job.kind)) - CountFailed(job.outcomes)

C12_Witness ==
  \E j \in JobIds :
    /\ Done(jobs[j])
    /\ jobs[j].outcomes = <<"ok", "throw", "ok">>
    /\ Len(jobs[j].progressLog) = 2

\* batch size of each kind as the specification gives it
ClaimedBatchSize(kind) ==
  CASE kind = "update" -> 10
    [] kind = "adjust-stock" -> 1
    [] OTHER -> 20

\* C13: a job over a non-empty selection S that was not cancelled and has
\* returned issued ceil(|S| / B) requests, each of B items except the last,
\* which has between 1 and B.
C13_ChunkCountAndSizes ==
  \A j \in JobIds :
    LET job == jobs[j]
        b == ClaimedBatchSize(job.kind)
        n == NumChunks(Len(job.ids), b)
    IN Done(job) /\ ~job.cancelled /\ Len(job.ids) > 0 =>
         /\ Len(job.sent) = n
         /\ \A k \in 1 .. n - 1 : Len(job.sent[k]) = b
         /\ Len(job.sent[n]) \in 1 .. b

\* 21 items activated: a chunk of 20 and a chunk of 1
C13_Witness ==
  \E j \in JobIds :
    /\ Done(jobs[j]) /\ ~jobs[j].cancelled /\ jobs[j].kind = "activate"
    /\ Len(jobs[j].sent) = 2
    /\ Len(jobs[j].sent[1]) = 20 /\ Len(jobs[j].sent[2]) \in 1 .. 19

RECURSIVE Flatten(_)
Flatten(ss) == IF ss = <<>> THEN <<>> ELSE Head(ss) \o Flatten(Tail(ss))

\* C14: the selection of a job holds no id twice, the ids submitted so far are
\* an initial part of it in order (no id is submitted twice, none is skipped)
\* and a returned job has submitted all of it.
C14_EveryIdSubmittedOnce ==
  \A j \in JobIds :
    LET job == jobs[j]
        flat == Flatten(job.sent)
    IN /\ Cardinality(Range(job.ids)) = Len(job.ids)
       /\ Len(flat) <= Len(job.ids)
       /\ flat = SubSeq(job.ids, 1, Len(flat))
       /\ Done(job) => flat = job.ids

C14_Witness ==
  \E j \in JobIds :
    /\ Done(jobs[j])
    /\ Len(jobs[j].sent) = 3
    /\ Failed(jobs[j], 1) /\ Failed(jobs[j], 2)
    /\ Flatten(jobs[j].sent) = jobs[j].ids

\* C15 as claimed: every job that was started has at least one item.
C15_NoJobOverEmptySelection ==
  \A j \in JobIds : Len(jobs[j].ids) >= 1

\* C16: handleBulkAction with an unknown action creates no job, issues no
\* request (no fetch, no export), leaves operationInProgress, the selection,
\* the dialog and the modals as they are and only raises an alert: the error
\* 'Unknown action' when the in-progress and empty-selection checks let it
\* reach the switch, the warning of the check that rejected it otherwise.
C16_UnknownActionCreatesNoJob ==
  [][HandleBulkAction("unknown") =>
       /\ UNCHANGED <<jobs, operationInProgress, selVars, exported, dom, modals,
                      buttons, currentOperation, refreshRequested>>
       /\ ~operationInProgress'
            => lastAlert' = IF Len(selectedItems) = 0 THEN "Please select items first"
                                                      ELSE "Unknown action"
       /\ operationInProgress' => lastAlert' = "Another operation is already in progress"]_vars

C16_Witness ==
  /\ lastAlert = "Unknown action"
  /\ ~operationInProgress
  /\ Len(selectedItems) > 0
  /\ jobs = <<>>
  /\ ~exported.started

\* C17: a job takes its ids from the selection in the step that starts it and
\* never again: they stay what they were whatever happens to the selection,
\* every request carries the slice of them at its position, and a step of the
\* job that does not end it leaves the selection alone.
C17_SelectionReadOnceAtStart ==
  [][\A j \in 1 .. Len(jobs') :
       LET b == ClaimedBatchSize(jobs'[j].kind) IN
       /\ j > Len(jobs) => jobs'[j].ids = selectedItems
       /\ j <= Len(jobs) => jobs'[j].ids = jobs[j].ids
       /\ \A k \in 1 .. Len(jobs'[j].sent) :
            jobs'[j].sent[k] = Slice(jobs'[j].ids, (k - 1) * b, k * b)
       /\ (j > Len(jobs) \/ jobs'[j] # jobs[j]) /\ jobs'[j].pc # "done"
            => UNCHANGED selVars]_vars

\* a second chunk is on its way after the selection was changed under the job
C17_Witness ==
  \E j \in JobIds :
    /\ jobs[j].pc = "fetch"
    /\ Len(jobs[j].sent) = 2
    /\ selectedItems # jobs[j].ids
    /\ selectedItems # <<>>
    /\ jobs[j].sent[1] \o jobs[j].sent[2] = jobs[j].ids

\* job j returns in this step
JobCompletes(j) ==
  /\ j \in 1 .. Len(jobs')
  /\ jobs'[j].pc = "done"
  /\ j > Len(jobs) \/ jobs[j].pc # "done"

\* the export button is clicked and passes both checks of handleBulkAction
ExportRuns ==
  /\ HandleBulkAction("export")
  /\ ~operationInProgress
  /\ Len(selectedItems) > 0

\* job j has a chunk processed in this step
ChunkProcessed(j) ==
  /\ j \in 1 .. Len(jobs)
  /\ Len(jobs'[j].outcomes) = Len(jobs[j].outcomes) + 1

\* C18 as claimed: when an operation of any kind has completed, export
\* included, the selection is empty and the refresh of the view is requested.
C18_AnyOperationClearsAndRefreshes ==
  [][(ExportRuns \/ \E j \in 1 .. Len(jobs') : JobCompletes(j))
       => selectedItems' = <<>> /\ refreshRequested']_vars

\* C18 as amended: when a job (update, stock adjustment, activate,
\* deactivate) returns, with or without errors, the selection is empty, no
\* row is ticked and the refresh is requested; an export leaves the selection
\* as it was and requests no refresh.
C18_JobClearsAndRefreshes ==
  [][/\ (\E j \in 1 .. Len(jobs') : JobCompletes(j))
          => /\ selectedItems' = <<>>
             /\ checked' = {}
             /\ refreshRequested'
     /\ ExportRuns
          => /\ UNCHANGED <<selVars, refreshRequested>>
             /\ exported'.started /\ exported'.ids = selectedItems]_vars

\* after an export that left the selection in place, a job with a failed
\* chunk has returned, cleared the selection and requested the refresh
C18_Witness ==
  /\ exported.started /\ exported.ids # <<>>
  /\ selectedItems = <<>>
  /\ refreshRequested
  /\ \E j \in JobIds : Done(jobs[j]) /\ AnyFailed(jobs[j]) /\ jobs[j].ids = exported.ids

\* C19 as claimed, for a job that has the dialog to itself: once a chunk has
\* been processed the two counters show the job's success count and the
\* length of its error list.
C19_CountersProjectJob ==
  Len(jobs) = 1 /\ (Len(jobs[1].outcomes) >= 1 \/ Done(jobs[1])) =>
    /\ dom.successCount = jobs[1].completed
    /\ dom.errorCount = Len(jobs[1].errors)

\* C19 as amended: the start of a job sets both counters to 0; a succeeded
\* chunk sets the success counter to the job's success count; a failed chunk
\* changes neither counter; the error counter is raised, by the length of the
\* job's error list, only in the step in which the job returns.
C19_CountersFollowJobSteps ==
  [][\A j \in 1 .. Len(jobs') :
       /\ j > Len(jobs) => dom'.successCount = 0 /\ dom'.errorCount = 0
       /\ ChunkProcessed(j) =>
            LET last == jobs'[j].outcomes[Len(jobs'[j].outcomes)] IN
            /\ last = "ok" => dom'.successCount = jobs'[j].completed
            /\ last # "ok" => dom'.successCount = dom.successCount
            /\ ~JobCompletes(j) => dom'.errorCount = dom.errorCount
       /\ j <= Len(jobs) /\ JobCompletes(j) =>
            dom'.errorCount = dom.errorCount + Len(jobs'[j].errors)
       /\ (\A i \in 1 .. Len(jobs') : ~JobCompletes(i) /\ i <= Len(jobs))
            => dom'.errorCount = dom.errorCount]_vars

\* a job has returned with two errors, both counted only at its return, and
\* its succeeded chunk on the success counter
C19_Witness ==
  /\ Len(jobs) = 1
  /\ Done(jobs[1])
  /\ Len(jobs[1].errors) = 2
  /\ jobs[1].completed >= 1
  /\ dom.errorCount = 2
  /\ dom.successCount = jobs[1].completed

\* C20: in the step in which a job returns, with or without errors, the
\* dialog shows the close button and hides the cancel button.
C20_CompletionShowsClose ==
  [][\A j \in 1 .. Len(jobs') :
       JobCompletes(j) => dom'.closeShown /\ ~dom'.cancelShown]_vars

C20_Witness ==
  \E j \in JobIds :
    /\ Done(jobs[j]) /\ ~jobs[j].cancelled
    /\ jobs[j].errors # <<>>
    /\ jobs[j].completed >= 1
    /\ dom.shown /\ dom.closeShown /\ ~dom.cancelShown

\* the toolbar tb shows the selection sel
ToolbarShows(tb, sel) ==
  /\ tb.display = "block" <=> Len(sel) > 0
  /\ tb.display = "block" => tb.selectedCount = Len(sel)

\* C21: before and after every step the toolbar is displayed exactly when the
\* selection is not empty, and while it is displayed its count label is the
\* size of the selection.
C21_ToolbarShowsSelection ==
  [][ToolbarShows(toolbar, selectedItems) /\ ToolbarShows(toolbar', selectedItems')]_vars

\* the toolbar was shown and is hidden again, its label left at the old count
C21_Witness ==
  /\ toolbar.display = "none"
  /\ toolbar.selectedCount >= 1
  /\ selectedItems = <<>>
  /\ jobs = <<>>

\* C22 as claimed: the header checkbox is unchecked when nothing is selected,
\* checked when every visible row is, indeterminate otherwise; with no visible
\* row the count is 0 and the box is unchecked and not indeterminate.
C22_HeaderTriState ==
  LET n == Len(selectedItems) IN
  /\ n = 0 => ~selectAllBox.checked /\ ~selectAllBox.indeterminate
  /\ n > 0 /\ n = visibleRows => selectAllBox.checked /\ ~selectAllBox.indeterminate
  /\ n > 0 /\ n # visibleRows => selectAllBox.indeterminate

\* the header checkbox box is in the state that n selected rows out of rows
\* visible ones call for; with no visible row it is only not indeterminate
TriState(box, n, rows) ==
  /\ rows > 0 =>
       /\ n = 0 => ~box.checked /\ ~box.indeterminate
       /\ n = rows => box.checked /\ ~box.indeterminate
       /\ n > 0 /\ n < rows => ~box.checked /\ box.indeterminate
  /\ rows = 0 => n = 0 /\ ~box.indeterminate

\* C22 as amended: before and after every step the tri-state holds on a page
\* with at least one visible row; with no visible row the header checkbox is
\* never indeterminate and is otherwise left as the user or the select-all
\* shortcut set it.
C22_HeaderTriStateWithRows ==
  [][/\ TriState(selectAllBox, Len(selectedItems), visibleRows)
     /\ TriState(selectAllBox', Len(selectedItems'), visibleRows')]_vars

\* all rows were selected and one was unticked
C22_Witness ==
  /\ visibleRows > 0
  /\ Len(selectedItems) = visibleRows - 1
  /\ selectAllBox.indeterminate /\ ~selectAllBox.checked

\* the selection sel holds exactly the ids chk, each once
SelectionIs(sel, chk) ==
  /\ Range(sel) = chk
  /\ Cardinality(chk) = Len(sel)

\* C28: before and after every step the selection holds exactly the ids of
\* the ticked item checkboxes.
C28_SelectionIsCheckedRows ==
  [][SelectionIs(selectedItems, checked) /\ SelectionIs(selectedItems', checked')]_vars

\* every row was selected by the header checkbox, then row 1 was unticked
C28_Witness ==
  /\ checked = Rows \ {1}
  /\ Range(selectedItems) = checked
  /\ events >= 2

\* the responses with success:false, leaving aside the empty errors list
FailResults ==
  {res \in Results : res.shape = "fail" /\ ~(res.hasErrors /\ res.errors = <<>>)}

\* job j after its pending chunk has been answered with success:false (res),
\* and after the same chunk has failed in transport
AfterFailure(j, res) == AfterChunk(OnFailure(JobState(j), res)).job
AfterThrow(j) == AfterChunk(OnThrow(JobState(j))).job

\* C23 as claimed: whatever chunk is pending, a success:false response and a
\* transport failure leave the job with the same completed count, the same
\* number of new error entries and the loop at the same place.
C23_FailureLikeTransportError ==
  \A j \in JobIds : jobs[j].pc = "json" =>
    \A res \in FailResults :
      /\ AfterFailure(j, res).completed = AfterThrow(j).completed
      /\ Len(AfterFailure(j, res).errors) = Len(AfterThrow(j).errors)
      /\ AfterFailure(j, res).i = AfterThrow(j).i
      /\ AfterFailure(j, res).pc = AfterThrow(j).pc
      /\ AfterFailure(j, res).sent = AfterThrow(j).sent

\* the loop of job j goes on in this step: to its pause, to the request for
\* the next chunk, or to its return after the last chunk
LoopProceeds(j) ==
  \/ jobs'[j].pc = "sleep" /\ jobs'[j].i = jobs[j].i
  \/ /\ jobs'[j].i = jobs[j].i + ClaimedBatchSize(jobs[j].kind)
     /\ \/ jobs'[j].pc = "fetch" /\ Len(jobs'[j].sent) = Len(jobs[j].sent) + 1
        \/ jobs'[j].pc = "done" /\ jobs'[j].i >= Len(jobs[j].ids)

\* C23 as amended: a transport failure and a success:false response both
\* leave completed as it was and let the loop proceed; the transport failure
\* adds one error entry, the success:false response one entry per element of
\* its errors list (one entry when it has no list, and one entry in a stock
\* adjustment).
C23_FailureAdvancesLikeTransportError ==
  [][\A j \in JobIds : jobs[j].pc \in {"fetch", "json"} /\ jobs'[j] # jobs[j] =>
       /\ FetchRejects(j) \/ JsonRejects(j) =>
            /\ jobs'[j].completed = jobs[j].completed
            /\ Len(jobs'[j].errors) = Len(jobs[j].errors) + 1
            /\ LoopProceeds(j)
       /\ \A res \in Results :
            res.shape = "fail" /\ JsonResolves(j, res) =>
              /\ jobs'[j].completed = jobs[j].completed
              /\ Len(jobs'[j].errors) - Len(jobs[j].errors) =
                   IF jobs[j].kind = "adjust-stock" \/ ~res.hasErrors THEN 1
                   ELSE Len(res.errors)
              /\ LoopProceeds(j)]_vars

\* a batched job had a chunk refused with two errors and a chunk lost in
\* transport: three entries, and only the items of the third chunk completed
C23_Witness ==
  \E j \in JobIds :
    /\ Done(jobs[j])
    /\ jobs[j].outcomes = <<"fail", "throw", "ok">>
    /\ jobs[j].errors = <<ServerError, ServerError, BatchError>>
    /\ jobs[j].completed = Len(jobs[j].sent[3])

\* response.json() of job j's pending request resolves to a success body:
\* JsonResolves(j, res) for that res, with the state after the chunk computed
\* once
JsonResolvesOk(j) ==
  /\ UNCHANGED events
  /\ jobs[j].pc = "json"
  /\ \E s1 \in {OnSuccess(JobState(j))} :
       \E s2 \in {AfterChunk(s1)} : Commit(j, s2, operationInProgress, buttons)
  /\ UNCHANGED stepFrame

\* every pending promise settles and every timer fires: a pending fetch does
\* not stay pending, nor does a pending response.json(), nor the 100 ms timer
FairSpec ==
  /\ Spec
  /\ WF_vars(\E j \in 1 .. Len(jobs) : FetchResolves(j))
  /\ WF_vars(\E j \in 1 .. Len(jobs) : JsonResolvesOk(j))
  /\ WF_vars(\E j \in 1 .. Len(jobs) : PauseElapses(j))

\* C24: provided every request settles, every job that was started returns
\* (again and again no job is left running), and operationInProgress does not
\* stay set.
C24_EveryJobTerminates ==
  /\ []<>(\A j \in JobIds : jobs[j].pc = "done")
  /\ []<>(~operationInProgress)

\* a job of three chunks, two of them failed, has returned and the flag is clear
C24_Witness ==
  \E j \in JobIds :
    /\ Done(jobs[j]) /\ ~jobs[j].cancelled
    /\ Len(jobs[j].sent) = 3
    /\ CountFailed(jobs[j].outcomes) = 2
    /\ ~operationInProgress

\* C25 as claimed: operationInProgress is set exactly while some job has not
\* returned.
C25_FlagTellsJobRunning ==
  operationInProgress <=> \E j \in JobIds : Running(j)

\* C26 as claimed, for the kinds only a toolbar button starts: while a job is
\* running the button of its kind is disabled.
C26_ButtonDisabledWhileRunning ==
  \A j \in JobIds :
    Running(j) /\ jobs[j].kind \in {"adjust-stock", "activate", "deactivate"}
      => buttons[jobs[j].kind].disabled

\* C27: in a stock adjustment a request other than the first is issued only by
\* the step that ends a pause, with every earlier response recorded; every
\* item, succeeded or failed, is followed by a pause; and the job returns only
\* from a pause.
C27_PauseAfterEveryStockItem ==
  [][\A j \in JobIds :
       jobs[j].kind = "adjust-stock" =>
         /\ Len(jobs'[j].sent) # Len(jobs[j].sent)
              => /\ jobs[j].pc = "sleep"
                 /\ Len(jobs[j].outcomes) = Len(jobs[j].sent)
                 /\ Len(jobs'[j].sent) = Len(jobs[j].sent) + 1
         /\ ChunkProcessed(j) => jobs'[j].pc = "sleep" /\ jobs'[j].sent = jobs[j].sent
         /\ JobCompletes(j) => jobs[j].pc = "sleep"]_vars

\* the request for the second item is out after the first item failed
C27_Witness ==
  \E j \in JobIds :
    /\ jobs[j].kind = "adjust-stock"
    /\ jobs[j].pc = "fetch"
    /\ Len(jobs[j].sent) = 2
    /\ jobs[j].outcomes \in {<<"fail">>, <<"throw">>}

\* the activate or deactivate button is clicked, passes both checks of
\* handleBulkAction, and no job comes of it
ConfirmDeclined ==
  /\ \E a \in {"activate", "deactivate"} : HandleBulkAction(a)
  /\ ~operationInProgress
  /\ Len(selectedItems) > 0
  /\ Len(jobs') = Len(jobs)

\* C29: declining the confirmation changes nothing: no job and no request, the
\* flag, the selection, the dialog, the buttons and the alert as they were, no
\* refresh requested.
C29_DeclinedConfirmChangesNothing ==
  [][ConfirmDeclined => UNCHANGED progVars]_vars

\* the second of two input events was a declined confirmation: after ticking
\* row 1, any other second event leaves an alert, a loading modal or another
\* selection
C29_Witness ==
  /\ events = 2
  /\ selectedItems = <<1>>
  /\ lastAlert = "none"
  /\ modals = [update |-> "none", stock |-> "none"]
  /\ jobs = <<>>
  /\ buttons = [a \in Actions |-> ButtonIdle]
  /\ ~refreshRequested /\ ~operationInProgress

\* C30: submitting the update form with no field ticked raises the warning
\* and changes nothing else: no job, no request, the flag, the selection and
\* the open form as they were, no refresh requested.
C30_EmptyFormRejected ==
  [][SubmitUpdateForm(FALSE) =>
       /\ lastAlert' = "Please select at least one field to update"
       /\ UNCHANGED <<jobs, operationInProgress, currentOperation, selVars, dom,
                      buttons, modals, refreshRequested, exported>>]_vars

C30_Witness ==
  /\ lastAlert = "Please select at least one field to update"
  /\ modals.update = "open"
  /\ selectedItems # <<>>
  /\ jobs = <<>>
  /\ ~operationInProgress /\ ~refreshRequested

====
